---- MODULE Spec2Model ----
(***************************************************************************)
(* USB CDC ACM <-> UART bridge with AT command interpreter                 *)
(* (src/USBD_User_CDC_ACM_UART_0.c).                                       *)
(*                                                                         *)
(* Two specifications share this module:                                   *)
(*   Spec     the UART -> USB direction: continuous reception into         *)
(*            uart_rx_buf, the receive-complete callback, the drain thread *)
(*            CDC0_ACM_UART_to_USB_Thread (one step per access to shared   *)
(*            memory, so that the callback and the USB core thread can run *)
(*            between any two of them) and the line-coding requests.       *)
(*   SpecCmd  the USB -> UART direction: USBD_CDC0_ACM_DataReceived, the   *)
(*            command line buffer, process_AT_command and the              *)
(*            send-complete callback.                                      *)
(***************************************************************************)
EXTENDS Integers, Sequences, FiniteSets, TLC

(***************************************************************************)
(* Bounds of the model                                                     *)
(***************************************************************************)
\* log2 of the ring buffer size used by the model (the program uses 9)
BufBits == 2
\* number of bytes the UART receives in one behaviour
MaxBytes == 9
\* number of line-coding requests of the USB host in one behaviour
MaxSets == 2
\* number of command lines the USB host sends in one behaviour
MaxLines == 2
\* size of the first packet when the USB host cuts a line in two
HostSplit == 3
\* number of calls of USBD_CDC0_ACM_Uninitialize in one behaviour
MaxUninits == 1

(***************************************************************************)
(* Program constants                                                       *)
(***************************************************************************)
\* #define UART_BUFFER_SIZE (512): a power of two, here 2^BufBits
UART_BUFFER_SIZE == 2 ^ BufBits

\* #define UART_BUFFER_SIZE (512) as the size of uart_tx_buf: the transmit
\* direction keeps the program's value
UART_TX_BUFFER_SIZE == 512
\* #define USB_RECEIVE_BUFFER_SIZE (512)
USB_RECEIVE_BUFFER_SIZE == 512
\* #define CMD_BUFFER_SIZE (64)
CMD_BUFFER_SIZE == 64
\* char storedLCDString[50]
LCD_STRING_SIZE == 50
\* char binaryString[5]
BINARY_STRING_SIZE == 5

(***************************************************************************)
(* State                                                                   *)
(***************************************************************************)
VARIABLES
  \* ---- UART -> USB direction ----
  uart_rx_buf,          \* ring buffer: offset -> arrival number of the byte stored there (0: none)
  uart_rx_cnt,          \* bytes of completed receptions
  usb_tx_cnt,           \* bytes handed to the USB side
  cdc_acm_bridge_tid,   \* drain thread exists
  cdc_acm_line_coding,  \* stored line coding
  uart_init,            \* driver initialised with UART_Callback
  rx_busy,              \* driver: a reception is armed (GetStatus().rx_busy)
  rx_count,             \* driver: bytes of the armed reception received so far (GetRxCount())
  pc,                   \* position of the drain thread
  cnt,                  \* local of the drain thread
  tmp,                  \* value of usb_tx_cnt loaded by a += of the drain thread
  \* ---- observation (history) variables of the UART -> USB direction ----
  uart_in,              \* number of bytes received from the UART so far
  usb_out,              \* arrival numbers of the bytes accepted by USBD_CDC_ACM_WriteData, in order
  t_total,              \* this tick: uart_rx_cnt + GetRxCount() as read (line 137)
  t_span,               \* this tick: unread span as computed (line 138)
  t_over,               \* this tick took the overflow branch (line 139)
  t_wrote,              \* this tick called USBD_CDC_ACM_WriteData
  t_valid,              \* no line coding was accepted since this tick began
  fell_behind,          \* some tick saw span >= capacity, or the USB write took less than offered
  overrun,              \* a received byte overwrote a byte not yet forwarded
  restarted,            \* a line-coding request was made after reception had begun
  raced,                \* a line-coding request ran in the middle of a drain tick
  nsets,                \* line-coding requests made so far
  set_ok,               \* result of the last line-coding request
  \* ---- lifecycle and line-coding requests of the USB stack ----
  got_line_coding,      \* record the latest USBD_CDC0_ACM_GetLineCoding returned (NoCoding: none since
                        \* the last SetLineCoding or Uninitialize)
  since_uninit,         \* USBD_CDC0_ACM_Uninitialize ran and no SetLineCoding was called since
  last_accepted,        \* the line coding of the latest accepted request (ZeroCoding: none yet)
  nuninit,              \* calls of USBD_CDC0_ACM_Uninitialize so far
  \* ---- observation of the calls of USBD_CDC_ACM_WriteData ----
  t_tx0,                \* this tick: usb_tx_cnt when USBD_CDC_ACM_WriteData was called
  pend,                 \* the latest call of USBD_CDC_ACM_WriteData accepted nothing: usb_tx_cnt and
                        \* the arrival number of the first byte offered then (NoPend: no such call,
                        \* or bytes were accepted, dropped or the counters zeroed since, also
                        \* during the tick of the call)
  \* ---- USB -> UART direction ----
  usb_fifo,             \* USB stack: bytes received from the host, not yet read by USBD_CDC_ACM_ReadData
  usb_receive_buffer,   \* the cnt bytes read by USBD_CDC0_ACM_DataReceived
  dr_pc,                \* USBD_CDC0_ACM_DataReceived: "idle", or "loop" inside the for loop
  dr_i,                 \* loop index i of USBD_CDC0_ACM_DataReceived
  cmd_buffer,           \* command line buffer, offset -> character
  cmd_buffer_cnt,       \* cursor of the command line buffer
  storedLCDString,      \* the stored display string (characters before the terminator)
  leds,                 \* level of the outputs LED1..LED8 (TRUE: GPIO_PIN_SET)
  uart_tx_buf,          \* transmit buffer (characters before the terminator / bytes read from USB)
  tx_busy,              \* driver: a transmission is in progress
  tx_num,               \* driver: number of bytes of the transmission in progress
  \* ---- USB host ----
  session,              \* the command lines the host may send in this behaviour
  nlines,               \* lines the host has begun
  hrest,                \* bytes of the current line the host has not sent yet
  \* ---- observation (history) variables of the USB -> UART direction ----
  cmd_oob,              \* a store through cmd_buffer[cmd_buffer_cnt++] landed outside cmd_buffer
  ndisp,                \* number of calls of process_AT_command
  last_line,            \* the line given to the latest call of process_AT_command
  prev_line,            \* the line given to the call before that
  d_leds0,              \* outputs before the latest call
  d_stored0,            \* stored display string before the latest call
  d_sent,               \* the messages whose transmission the latest call started
  d_reads,              \* indices of binaryString read by the latest call
  d_sw,                 \* the levels of SW1..SW4 the latest call read (TRUE: asserted, pin low)
  d_pot,                \* the value ReadPot gave the latest call
  tx_clobbered,         \* uart_tx_buf was written while a transmission from it was in progress
  usb_read,             \* all bytes read from the USB stack, in order
  dr_read,              \* the bytes USBD_CDC0_ACM_DataReceived read, call after call, in order
  dispatched,           \* the lines given to process_AT_command, call after call
  uart_relayed          \* all bytes read from the USB stack that were handed to ptrUART->Send

bvars == <<uart_rx_buf, uart_rx_cnt, usb_tx_cnt, cdc_acm_bridge_tid, cdc_acm_line_coding,
           uart_init, rx_busy, rx_count, pc, cnt, tmp,
           uart_in, usb_out, t_total, t_span, t_over, t_wrote, t_valid,
           fell_behind, overrun, restarted, raced, nsets, set_ok>>

tvars == <<t_total, t_span, t_over, t_wrote, t_valid>>

\* variables of the USB -> UART direction
cvars == <<usb_fifo, usb_receive_buffer, dr_pc, dr_i, cmd_buffer, cmd_buffer_cnt,
           storedLCDString, leds, uart_tx_buf, tx_busy, tx_num, session, nlines, hrest,
           cmd_oob, ndisp, last_line, prev_line, d_leds0, d_stored0, d_sent, d_reads,
           d_sw, d_pot, tx_clobbered, usb_read, dr_read, dispatched, uart_relayed>>

dvars == <<ndisp, last_line, prev_line, d_leds0, d_stored0, d_sent, d_reads, d_sw, d_pot,
           dispatched>>

\* lifecycle and line-coding observation
lvars == <<got_line_coding, since_uninit, last_accepted, nuninit>>

\* observation of the calls of USBD_CDC_ACM_WriteData
wvars == <<t_tx0, pend>>

vars == <<bvars, cvars, lvars, wvars>>

(***************************************************************************)
(* Helpers                                                                 *)
(***************************************************************************)
RECURSIVE BitAnd(_, _)
\* a & b on non-negative integers
BitAnd(a, b) ==
  IF a = 0 \/ b = 0 THEN 0
  ELSE (IF a % 2 = 1 /\ b % 2 = 1 THEN 1 ELSE 0) + 2 * BitAnd(a \div 2, b \div 2)

\* variant of Offset with the mask UART_BUFFER_SIZE in place of UART_BUFFER_SIZE - 1
Offset_WrongMask(x) == BitAnd(x, UART_BUFFER_SIZE)

\* (uint32_t)usb_tx_cnt & (UART_BUFFER_SIZE - 1); usb_tx_cnt is never negative
\* (it only grows from 0), so the cast leaves the value as it is
Offset(x) == BitAnd(x, UART_BUFFER_SIZE - 1)

ZeroCoding == [dwDTERate |-> 0, bCharFormat |-> 0, bParityType |-> 0, bDataBits |-> 0]

\* pend when no call of USBD_CDC_ACM_WriteData is to be repeated
NoPend == [tx |-> -1, first |-> -1]

\* got_line_coding when no USBD_CDC0_ACM_GetLineCoding has returned
NoCoding == [dwDTERate |-> -1, bCharFormat |-> -1, bParityType |-> -1, bDataBits |-> -1]

\* line codings the USB host requests in the model
LineCodings ==
  { [dwDTERate |-> 9600, bCharFormat |-> 0, bParityType |-> 0, bDataBits |-> 8],
    [dwDTERate |-> 9600, bCharFormat |-> 3, bParityType |-> 0, bDataBits |-> 8],
    [dwDTERate |-> 9600, bCharFormat |-> 0, bParityType |-> 3, bDataBits |-> 8],
    [dwDTERate |-> 9600, bCharFormat |-> 0, bParityType |-> 0, bDataBits |-> 9],
    [dwDTERate |-> 0,    bCharFormat |-> 2, bParityType |-> 2, bDataBits |-> 5] }

\* ptrUART->Control(ARM_USART_MODE_ASYNCHRONOUS | ..., dwDTERate): the driver refuses a baud rate of 0
DriverAccepts(lc) == lc.dwDTERate > 0

\* the three switch statements of USBD_CDC0_ACM_SetLineCoding
CodingSupported(lc) ==
  /\ lc.bCharFormat \in {0, 1, 2}
  /\ lc.bParityType \in {0, 1, 2}
  /\ lc.bDataBits \in {5, 6, 7, 8}

(***************************************************************************)
(* Strings: a C string is the sequence of its characters before the        *)
(* terminator; a character is a one-letter string, NUL the terminator      *)
(***************************************************************************)
NUL == "NUL"

\* line 202: "AT+LED"
S_AT_LED ==
  <<"A", "T", "+", "L", "E", "D">>
\* line 277: "AT+LCD="
S_AT_LCD ==
  <<"A", "T", "+", "L", "C", "D", "=">>
\* line 286: "AT+BUTTON"
S_AT_BUTTON ==
  <<"A", "T", "+", "B", "U", "T", "T", "O", "N">>
\* line 342: "AT+POT"
S_AT_POT ==
  <<"A", "T", "+", "P", "O", "T">>
\* line 275: "LED value set to: "
F_LED ==
  <<"L", "E", "D", " ", "v", "a", "l", "u", "e", " ", "s", "e", "t", " ", "t", "o", ":", " ">>
\* line 284: "LCD string set to: "
F_LCD ==
  <<"L", "C", "D", " ", "s", "t", "r", "i", "n", "g", " ", "s", "e", "t", " ", "t", "o", ":", " ">>
\* line 345: "Potentiometer value: "
F_POT ==
  <<"P", "o", "t", "e", "n", "t", "i", "o", "m", "e", "t", "e", "r", " ", "v", "a", "l", "u", "e", ":", " ">>
\* line 275: "\r\n"
CRLF ==
  <<"\r", "\n">>
\* line 290: "All buttons are pressed\r\n"
M_ALL ==
  <<"A", "l", "l", " ", "b", "u", "t", "t", "o", "n", "s", " ", "a", "r", "e", " ", "p", "r", "e", "s", "s", "e", "d", "\r", "\n">>
\* line 294: "Button 1, Button 2 and Button 3 are pressed\r\n"
M_123 ==
  <<"B", "u", "t", "t", "o", "n", " ", "1", ",", " ", "B", "u", "t", "t", "o", "n", " ", "2", " ", "a", "n", "d", " ", "B", "u", "t", "t", "o", "n", " ", "3", " ", "a", "r", "e", " ", "p", "r", "e", "s", "s", "e", "d", "\r", "\n">>
\* line 297: "Button 1, Button 2 and Button 4 are pressed\r\n"
M_124 ==
  <<"B", "u", "t", "t", "o", "n", " ", "1", ",", " ", "B", "u", "t", "t", "o", "n", " ", "2", " ", "a", "n", "d", " ", "B", "u", "t", "t", "o", "n", " ", "4", " ", "a", "r", "e", " ", "p", "r", "e", "s", "s", "e", "d", "\r", "\n">>
\* line 300: "Button 1, Button 3 and Button 4 are pressed\r\n"
M_134 ==
  <<"B", "u", "t", "t", "o", "n", " ", "1", ",", " ", "B", "u", "t", "t", "o", "n", " ", "3", " ", "a", "n", "d", " ", "B", "u", "t", "t", "o", "n", " ", "4", " ", "a", "r", "e", " ", "p", "r", "e", "s", "s", "e", "d", "\r", "\n">>
\* line 303: "Button 2, Button 3 and Button 4 are pressed\r\n"
M_234 ==
  <<"B", "u", "t", "t", "o", "n", " ", "2", ",", " ", "B", "u", "t", "t", "o", "n", " ", "3", " ", "a", "n", "d", " ", "B", "u", "t", "t", "o", "n", " ", "4", " ", "a", "r", "e", " ", "p", "r", "e", "s", "s", "e", "d", "\r", "\n">>
\* line 308: "Button 1 and Button 2 are pressed\r\n"
M_12 ==
  <<"B", "u", "t", "t", "o", "n", " ", "1", " ", "a", "n", "d", " ", "B", "u", "t", "t", "o", "n", " ", "2", " ", "a", "r", "e", " ", "p", "r", "e", "s", "s", "e", "d", "\r", "\n">>
\* line 310: "Button 1 and Button 3 are pressed\r\n"
M_13 ==
  <<"B", "u", "t", "t", "o", "n", " ", "1", " ", "a", "n", "d", " ", "B", "u", "t", "t", "o", "n", " ", "3", " ", "a", "r", "e", " ", "p", "r", "e", "s", "s", "e", "d", "\r", "\n">>
\* line 313: "Button 1 and Button 4 are pressed\r\n"
M_14 ==
  <<"B", "u", "t", "t", "o", "n", " ", "1", " ", "a", "n", "d", " ", "B", "u", "t", "t", "o", "n", " ", "4", " ", "a", "r", "e", " ", "p", "r", "e", "s", "s", "e", "d", "\r", "\n">>
\* line 318: "Button 2 and Button 3 are pressed\r\n"
M_23 ==
  <<"B", "u", "t", "t", "o", "n", " ", "2", " ", "a", "n", "d", " ", "B", "u", "t", "t", "o", "n", " ", "3", " ", "a", "r", "e", " ", "p", "r", "e", "s", "s", "e", "d", "\r", "\n">>
\* line 321: "Button 2 and Button 4 are pressed\r\n"
M_24 ==
  <<"B", "u", "t", "t", "o", "n", " ", "2", " ", "a", "n", "d", " ", "B", "u", "t", "t", "o", "n", " ", "4", " ", "a", "r", "e", " ", "p", "r", "e", "s", "s", "e", "d", "\r", "\n">>
\* line 326: "Button 3 and Button 4 are pressed\r\n"
M_34 ==
  <<"B", "u", "t", "t", "o", "n", " ", "3", " ", "a", "n", "d", " ", "B", "u", "t", "t", "o", "n", " ", "4", " ", "a", "r", "e", " ", "p", "r", "e", "s", "s", "e", "d", "\r", "\n">>
\* line 330: "Button 1 is pressed\r\n"
M_1 ==
  <<"B", "u", "t", "t", "o", "n", " ", "1", " ", "i", "s", " ", "p", "r", "e", "s", "s", "e", "d", "\r", "\n">>
\* line 332: "Button 2 is pressed\r\n"
M_2 ==
  <<"B", "u", "t", "t", "o", "n", " ", "2", " ", "i", "s", " ", "p", "r", "e", "s", "s", "e", "d", "\r", "\n">>
\* line 334: "Button 3 is pressed\r\n"
M_3 ==
  <<"B", "u", "t", "t", "o", "n", " ", "3", " ", "i", "s", " ", "p", "r", "e", "s", "s", "e", "d", "\r", "\n">>
\* line 336: "Button 4 is pressed\r\n"
M_4 ==
  <<"B", "u", "t", "t", "o", "n", " ", "4", " ", "i", "s", " ", "p", "r", "e", "s", "s", "e", "d", "\r", "\n">>
\* line 338: "No button is pressed\r\n"
M_NONE ==
  <<"N", "o", " ", "b", "u", "t", "t", "o", "n", " ", "i", "s", " ", "p", "r", "e", "s", "s", "e", "d", "\r", "\n">>

Digits == <<"0", "1", "2", "3", "4", "5", "6", "7", "8", "9">>

IsDigit(c) == \E d \in 1..10 : Digits[d] = c

DigitVal(c) == (CHOOSE d \in 1..10 : Digits[d] = c) - 1

\* isspace(c)
IsSpace(c) == c \in {" ", "\t", "\n", "\r", "\f"}

\* the first n elements of s (all of s when it is shorter)
Take(s, n) == SubSeq(s, 1, IF Len(s) < n THEN Len(s) ELSE n)

\* s without its first n elements
Drop(s, n) == SubSeq(s, n + 1, Len(s))

\* the C string that starts at cmd_buffer + i: the characters up to the first
\* terminator (up to the end of the array when there is none)
CStrFrom(buf, i) ==
  LET ends == {j \in i..(CMD_BUFFER_SIZE - 1) : buf[j] = NUL} \cup {CMD_BUFFER_SIZE}
      e == CHOOSE j \in ends : \A k \in ends : j <= k
  IN [k \in 1..(e - i) |-> buf[i + k - 1]]

\* strncmp(a, lit, n) == 0
StrNCmpEq(a, lit, n) == Take(a, n) = Take(lit, n)

RECURSIVE AtoiDigits(_, _)
\* the digit loop of atoi: acc is the value of the digits consumed so far
AtoiDigits(s, acc) ==
  IF s = <<>> \/ ~IsDigit(Head(s)) THEN acc
  ELSE AtoiDigits(Tail(s), acc * 10 + DigitVal(Head(s)))

RECURSIVE Atoi(_)
\* atoi(s): leading white space, an optional sign, then decimal digits
Atoi(s) ==
  IF s = <<>> THEN 0
  ELSE IF IsSpace(Head(s)) THEN Atoi(Tail(s))
  ELSE IF Head(s) = "-" THEN 0 - AtoiDigits(Tail(s), 0)
  ELSE IF Head(s) = "+" THEN AtoiDigits(Tail(s), 0)
  ELSE AtoiDigits(s, 0)

RECURSIVE DecDigits(_)
\* the decimal digits of n >= 0
DecDigits(n) ==
  IF n < 10 THEN <<Digits[n + 1]>> ELSE DecDigits(n \div 10) \o <<Digits[(n % 10) + 1]>>

\* what %d prints
Dec(n) == IF n < 0 THEN <<"-">> \o DecDigits(0 - n) ELSE DecDigits(n)

\* snprintf((char*)uart_tx_buf, UART_BUFFER_SIZE, ...): at most size - 1 characters
Snprintf(s) == Take(s, UART_TX_BUFFER_SIZE - 1)

RECURSIVE IntToBinaryLoop_LsbFirst(_, _, _)
\* variant of IntToBinaryLoop that puts the least significant bit at index 0
IntToBinaryLoop_LsbFirst(num, bs, i) ==
  IF i < 0 THEN bs
  ELSE IntToBinaryLoop_LsbFirst(num \div 2,
          [bs EXCEPT ![(BINARY_STRING_SIZE - 2) - i] = Digits[(num % 2) + 1]], i - 1)

RECURSIVE IntToBinaryLoop(_, _, _)
\* the for loop of intToBinaryString: binaryString[i] = (num & 1) + '0'; num >>= 1
IntToBinaryLoop(num, bs, i) ==
  IF i < 0 THEN bs
  ELSE IntToBinaryLoop(num \div 2, [bs EXCEPT ![i] = Digits[(num % 2) + 1]], i - 1)

\* intToBinaryString(num, binaryString, size), on an array of BINARY_STRING_SIZE
\* characters whose content before the call is init
intToBinaryString(num, init, size) ==
  [IntToBinaryLoop(num, init, size - 1) EXCEPT ![size] = NUL]

\* storeLCDString(lcdString): strncpy of at most sizeof - 1 characters, then the terminator
storeLCDString(lcdString) == Take(lcdString, LCD_STRING_SIZE - 1)

(***************************************************************************)
(* Initial state: the statics of the module before USBD_Initialize         *)
(***************************************************************************)
InitBridge ==
  /\ uart_rx_buf = [i \in 0..(UART_BUFFER_SIZE - 1) |-> 0]
  /\ uart_rx_cnt = 0
  /\ usb_tx_cnt = 0
  /\ cdc_acm_bridge_tid = FALSE
  /\ cdc_acm_line_coding = ZeroCoding
  /\ uart_init = FALSE
  /\ rx_busy = FALSE
  /\ rx_count = 0
  /\ pc = "none"
  /\ cnt = 0
  /\ tmp = 0
  /\ uart_in = 0
  /\ usb_out = <<>>
  /\ t_total = 0
  /\ t_span = 0
  /\ t_over = FALSE
  /\ t_wrote = FALSE
  /\ t_valid = FALSE
  /\ fell_behind = FALSE
  /\ overrun = FALSE
  /\ restarted = FALSE
  /\ raced = FALSE
  /\ nsets = 0
  /\ set_ok = FALSE
  /\ got_line_coding = NoCoding
  /\ since_uninit = FALSE
  /\ last_accepted = ZeroCoding
  /\ nuninit = 0
  /\ t_tx0 = 0
  /\ pend = NoPend

\* the USB -> UART direction before USBD_Initialize; the host's session is s
InitCmdSide(s) ==
  /\ usb_fifo = <<>>
  /\ usb_receive_buffer = <<>>
  /\ dr_pc = "idle"
  /\ dr_i = 0
  /\ cmd_buffer = [i \in 0..(CMD_BUFFER_SIZE - 1) |-> NUL]
  /\ cmd_buffer_cnt = 0
  /\ storedLCDString = <<>>
  /\ leds = [k \in 1..8 |-> FALSE]
  /\ uart_tx_buf = <<>>
  /\ tx_busy = FALSE
  /\ tx_num = 0
  /\ session = s
  /\ nlines = 0
  /\ hrest = <<>>
  /\ cmd_oob = FALSE
  /\ ndisp = 0
  /\ last_line = <<>>
  /\ prev_line = <<>>
  /\ d_leds0 = [k \in 1..8 |-> FALSE]
  /\ d_stored0 = <<>>
  /\ d_sent = <<>>
  /\ d_reads = {}
  /\ d_sw = [k \in 1..4 |-> FALSE]
  /\ d_pot = 0
  /\ tx_clobbered = FALSE
  /\ usb_read = <<>>
  /\ dr_read = <<>>
  /\ dispatched = <<>>
  /\ uart_relayed = <<>>

Init == InitBridge /\ InitCmdSide({})

(***************************************************************************)
(* UART driver and UART_Callback                                           *)
(***************************************************************************)
\* variant of UART_RxByte that counts every received byte in uart_rx_cnt
UART_RxByte_Counts ==
  /\ rx_busy
  /\ uart_in < MaxBytes
  /\ rx_count + 1 < UART_BUFFER_SIZE
  /\ uart_in' = uart_in + 1
  /\ uart_rx_buf' = [uart_rx_buf EXCEPT ![rx_count] = uart_in + 1]
  /\ rx_count' = rx_count + 1
  /\ uart_rx_cnt' = uart_rx_cnt + 1
  /\ overrun' = (overrun \/ uart_rx_cnt + rx_count - usb_tx_cnt >= UART_BUFFER_SIZE)
  /\ UNCHANGED <<usb_tx_cnt, cdc_acm_bridge_tid, cdc_acm_line_coding, uart_init,
                 rx_busy, pc, cnt, tmp, usb_out, tvars, fell_behind, restarted, raced,
                 nsets, set_ok, cvars, lvars, wvars>>

\* a byte arrives on the UART and does not complete the armed reception
UART_RxByte ==
  /\ rx_busy
  /\ uart_in < MaxBytes
  /\ rx_count + 1 < UART_BUFFER_SIZE
  /\ uart_in' = uart_in + 1
  /\ uart_rx_buf' = [uart_rx_buf EXCEPT ![rx_count] = uart_in + 1]
  /\ rx_count' = rx_count + 1
  /\ overrun' = (overrun \/ uart_rx_cnt + rx_count - usb_tx_cnt >= UART_BUFFER_SIZE)
  /\ UNCHANGED <<uart_rx_cnt, usb_tx_cnt, cdc_acm_bridge_tid, cdc_acm_line_coding, uart_init,
                 rx_busy, pc, cnt, tmp, usb_out, tvars, fell_behind, restarted, raced,
                 nsets, set_ok, cvars, lvars, wvars>>

\* the last byte of the armed reception arrives: the driver's interrupt handler
\* calls UART_Callback(ARM_USART_EVENT_RECEIVE_COMPLETE), which counts the chunk
\* and restarts the reception on the same buffer
UART_Callback_ReceiveComplete ==
  /\ rx_busy
  /\ uart_in < MaxBytes
  /\ rx_count + 1 = UART_BUFFER_SIZE
  /\ uart_in' = uart_in + 1
  /\ uart_rx_buf' = [uart_rx_buf EXCEPT ![rx_count] = uart_in + 1]
  /\ overrun' = (overrun \/ uart_rx_cnt + rx_count - usb_tx_cnt >= UART_BUFFER_SIZE)
  /\ uart_rx_cnt' = uart_rx_cnt + UART_BUFFER_SIZE
  /\ rx_busy' = TRUE
  /\ rx_count' = 0
  /\ UNCHANGED <<usb_tx_cnt, cdc_acm_bridge_tid, cdc_acm_line_coding, uart_init,
                 pc, cnt, tmp, usb_out, tvars, fell_behind, restarted, raced, nsets, set_ok, cvars, lvars, wvars>>

(***************************************************************************)
(* CDC0_ACM_UART_to_USB_Thread: one action per access to shared state      *)
(***************************************************************************)
\* the data USBD_CDC_ACM_WriteData is given: n bytes of uart_rx_buf from offset off
\* (-1 stands for a byte read beyond the end of uart_rx_buf)
BufRun(off, n) ==
  [i \in 1..n |-> IF off + i - 1 < UART_BUFFER_SIZE THEN uart_rx_buf[off + i - 1] ELSE -1]

\* line 135: if (ptrUART->GetStatus().rx_busy != 0U)
Thread_l135 ==
  /\ pc = "l135"
  /\ pc' = IF rx_busy THEN "l136" ELSE "l155"
  /\ t_total' = 0
  /\ t_span' = 0
  /\ t_over' = FALSE
  /\ t_wrote' = FALSE
  /\ t_valid' = TRUE
  /\ t_tx0' = 0
  /\ UNCHANGED <<uart_rx_buf, uart_rx_cnt, usb_tx_cnt, cdc_acm_bridge_tid, cdc_acm_line_coding,
                 uart_init, rx_busy, rx_count, cnt, tmp, uart_in, usb_out,
                 fell_behind, overrun, restarted, raced, nsets, set_ok, cvars, lvars, pend>>

\* line 136: cnt = uart_rx_cnt
Thread_l136 ==
  /\ pc = "l136"
  /\ cnt' = uart_rx_cnt
  /\ pc' = "l137"
  /\ UNCHANGED <<uart_rx_buf, uart_rx_cnt, usb_tx_cnt, cdc_acm_bridge_tid, cdc_acm_line_coding,
                 uart_init, rx_busy, rx_count, tmp, uart_in, usb_out, tvars,
                 fell_behind, overrun, restarted, raced, nsets, set_ok, cvars, lvars, wvars>>

\* line 137: cnt += (int32_t)ptrUART->GetRxCount()
Thread_l137 ==
  /\ pc = "l137"
  /\ cnt' = cnt + rx_count
  /\ t_total' = cnt + rx_count
  /\ pc' = "l138"
  /\ UNCHANGED <<uart_rx_buf, uart_rx_cnt, usb_tx_cnt, cdc_acm_bridge_tid, cdc_acm_line_coding,
                 uart_init, rx_busy, rx_count, tmp, uart_in, usb_out,
                 t_span, t_over, t_wrote, t_valid,
                 fell_behind, overrun, restarted, raced, nsets, set_ok, cvars, lvars, wvars>>

\* variant of Thread_l138 without the test of line 139: a span of the whole
\* buffer or more is forwarded like any other
Thread_l138_NoDump ==
  /\ pc = "l138"
  /\ cnt' = cnt - usb_tx_cnt
  /\ t_span' = cnt - usb_tx_cnt
  /\ t_over' = (cnt - usb_tx_cnt >= UART_BUFFER_SIZE)
  /\ fell_behind' = (fell_behind \/ cnt - usb_tx_cnt >= UART_BUFFER_SIZE)
  /\ pc' = IF cnt - usb_tx_cnt > 0 THEN "l145" ELSE "l155"
  /\ UNCHANGED <<uart_rx_buf, uart_rx_cnt, usb_tx_cnt, cdc_acm_bridge_tid, cdc_acm_line_coding,
                 uart_init, rx_busy, rx_count, tmp, uart_in, usb_out,
                 t_total, t_wrote, t_valid,
                 overrun, restarted, raced, nsets, set_ok, cvars, lvars, wvars>>

\* variant of Thread_l138 whose test of line 139 is cnt > UART_BUFFER_SIZE: a span
\* of exactly the buffer is handed to the USB write
Thread_l138_Strict ==
  /\ pc = "l138"
  /\ cnt' = cnt - usb_tx_cnt
  /\ t_span' = cnt - usb_tx_cnt
  /\ t_over' = (cnt - usb_tx_cnt > UART_BUFFER_SIZE)
  /\ fell_behind' = (fell_behind \/ cnt - usb_tx_cnt > UART_BUFFER_SIZE)
  /\ pc' = IF cnt - usb_tx_cnt > UART_BUFFER_SIZE THEN "l141"
           ELSE IF cnt - usb_tx_cnt > 0 THEN "l145" ELSE "l155"
  /\ UNCHANGED <<uart_rx_buf, uart_rx_cnt, usb_tx_cnt, cdc_acm_bridge_tid, cdc_acm_line_coding,
                 uart_init, rx_busy, rx_count, tmp, uart_in, usb_out,
                 t_total, t_wrote, t_valid,
                 overrun, restarted, raced, nsets, set_ok, cvars, lvars, wvars>>

\* lines 138-139, 144: cnt -= usb_tx_cnt, then the two tests on cnt
Thread_l138 ==
  /\ pc = "l138"
  /\ cnt' = cnt - usb_tx_cnt
  /\ t_span' = cnt - usb_tx_cnt
  /\ t_over' = (cnt - usb_tx_cnt >= UART_BUFFER_SIZE)
  /\ fell_behind' = (fell_behind \/ cnt - usb_tx_cnt >= UART_BUFFER_SIZE)
  /\ pc' = IF cnt - usb_tx_cnt >= UART_BUFFER_SIZE THEN "l141"
           ELSE IF cnt - usb_tx_cnt > 0 THEN "l145" ELSE "l155"
  /\ UNCHANGED <<uart_rx_buf, uart_rx_cnt, usb_tx_cnt, cdc_acm_bridge_tid, cdc_acm_line_coding,
                 uart_init, rx_busy, rx_count, tmp, uart_in, usb_out,
                 t_total, t_wrote, t_valid,
                 overrun, restarted, raced, nsets, set_ok, cvars, lvars, wvars>>

\* line 141, load of usb_tx_cnt += cnt
Thread_l141 ==
  /\ pc = "l141"
  /\ tmp' = usb_tx_cnt
  /\ pc' = "l141w"
  /\ UNCHANGED <<uart_rx_buf, uart_rx_cnt, usb_tx_cnt, cdc_acm_bridge_tid, cdc_acm_line_coding,
                 uart_init, rx_busy, rx_count, cnt, uart_in, usb_out, tvars,
                 fell_behind, overrun, restarted, raced, nsets, set_ok, cvars, lvars, wvars>>

\* variant of Thread_l141w that clears cnt without advancing usb_tx_cnt
Thread_l141w_NoAdvance ==
  /\ pc = "l141w"
  /\ usb_tx_cnt' = tmp
  /\ cnt' = 0
  /\ pc' = "l155"
  /\ pend' = NoPend
  /\ UNCHANGED <<uart_rx_buf, uart_rx_cnt, cdc_acm_bridge_tid, cdc_acm_line_coding,
                 uart_init, rx_busy, rx_count, tmp, uart_in, usb_out, tvars,
                 fell_behind, overrun, restarted, raced, nsets, set_ok, cvars, lvars, t_tx0>>

\* lines 141-142, store of usb_tx_cnt += cnt; cnt = 0 (so the test of line 144 fails)
Thread_l141w ==
  /\ pc = "l141w"
  /\ usb_tx_cnt' = tmp + cnt
  /\ cnt' = 0
  /\ pc' = "l155"
  /\ pend' = NoPend
  /\ UNCHANGED <<uart_rx_buf, uart_rx_cnt, cdc_acm_bridge_tid, cdc_acm_line_coding,
                 uart_init, rx_busy, rx_count, tmp, uart_in, usb_out, tvars,
                 fell_behind, overrun, restarted, raced, nsets, set_ok, cvars, lvars, t_tx0>>

\* lines 145-148: cnt_to_wrap and the clipping of cnt
Cnt_to_wrap(tx) == UART_BUFFER_SIZE - Offset(tx)

\* variant of Thread_l145 without the clipping of lines 146-148
Thread_l145_NoClip ==
  /\ pc = "l145"
  /\ cnt' = cnt
  /\ pc' = "l149"
  /\ UNCHANGED <<uart_rx_buf, uart_rx_cnt, usb_tx_cnt, cdc_acm_bridge_tid, cdc_acm_line_coding,
                 uart_init, rx_busy, rx_count, tmp, uart_in, usb_out, tvars,
                 fell_behind, overrun, restarted, raced, nsets, set_ok, cvars, lvars, wvars>>

Thread_l145 ==
  /\ pc = "l145"
  /\ cnt' = IF cnt > Cnt_to_wrap(usb_tx_cnt) THEN Cnt_to_wrap(usb_tx_cnt) ELSE cnt
  /\ pc' = "l149"
  /\ UNCHANGED <<uart_rx_buf, uart_rx_cnt, usb_tx_cnt, cdc_acm_bridge_tid, cdc_acm_line_coding,
                 uart_init, rx_busy, rx_count, tmp, uart_in, usb_out, tvars,
                 fell_behind, overrun, restarted, raced, nsets, set_ok, cvars, lvars, wvars>>

\* variant of Thread_l149 without the test of line 150: usb_tx_cnt += cnt runs
\* whatever USBD_CDC_ACM_WriteData returned
Thread_l149_NoTest ==
  /\ pc = "l149"
  /\ \E acc \in (-1)..cnt :
       /\ cnt' = acc
       /\ t_wrote' = TRUE
       /\ usb_out' = IF acc > 0 THEN usb_out \o SubSeq(BufRun(Offset(usb_tx_cnt), cnt), 1, acc)
                     ELSE usb_out
       /\ fell_behind' = (fell_behind \/ acc < cnt)
       /\ pc' = "l151"
       /\ pend' = IF acc > 0 \/ ~t_valid THEN NoPend
                  ELSE [tx |-> usb_tx_cnt, first |-> uart_rx_buf[Offset(usb_tx_cnt)]]
  /\ t_tx0' = usb_tx_cnt
  /\ UNCHANGED <<uart_rx_buf, uart_rx_cnt, usb_tx_cnt, cdc_acm_bridge_tid, cdc_acm_line_coding,
                 uart_init, rx_busy, rx_count, tmp, uart_in,
                 t_total, t_span, t_over, t_valid,
                 overrun, restarted, raced, nsets, set_ok, cvars, lvars>>

\* lines 149-150: cnt = USBD_CDC_ACM_WriteData(0U, uart_rx_buf + offset, cnt); the USB
\* stack accepts acc of the cnt bytes offered, or reports an error (-1)
Thread_l149 ==
  /\ pc = "l149"
  /\ \E acc \in (-1)..cnt :
       /\ cnt' = acc
       /\ t_wrote' = TRUE
       /\ usb_out' = IF acc > 0 THEN usb_out \o SubSeq(BufRun(Offset(usb_tx_cnt), cnt), 1, acc)
                     ELSE usb_out
       /\ fell_behind' = (fell_behind \/ acc < cnt)
       /\ pc' = IF acc > 0 THEN "l151" ELSE "l155"
       /\ pend' = IF acc > 0 \/ ~t_valid THEN NoPend
                  ELSE [tx |-> usb_tx_cnt, first |-> uart_rx_buf[Offset(usb_tx_cnt)]]
  /\ t_tx0' = usb_tx_cnt
  /\ UNCHANGED <<uart_rx_buf, uart_rx_cnt, usb_tx_cnt, cdc_acm_bridge_tid, cdc_acm_line_coding,
                 uart_init, rx_busy, rx_count, tmp, uart_in,
                 t_total, t_span, t_over, t_valid,
                 overrun, restarted, raced, nsets, set_ok, cvars, lvars>>

\* line 151, load of usb_tx_cnt += cnt
Thread_l151 ==
  /\ pc = "l151"
  /\ tmp' = usb_tx_cnt
  /\ pc' = "l151w"
  /\ UNCHANGED <<uart_rx_buf, uart_rx_cnt, usb_tx_cnt, cdc_acm_bridge_tid, cdc_acm_line_coding,
                 uart_init, rx_busy, rx_count, cnt, uart_in, usb_out, tvars,
                 fell_behind, overrun, restarted, raced, nsets, set_ok, cvars, lvars, wvars>>

\* line 151, store of usb_tx_cnt += cnt
Thread_l151w ==
  /\ pc = "l151w"
  /\ usb_tx_cnt' = tmp + cnt
  /\ pc' = "l155"
  /\ UNCHANGED <<uart_rx_buf, uart_rx_cnt, cdc_acm_bridge_tid, cdc_acm_line_coding,
                 uart_init, rx_busy, rx_count, cnt, tmp, uart_in, usb_out, tvars,
                 fell_behind, overrun, restarted, raced, nsets, set_ok, cvars, lvars, wvars>>

\* line 155: osDelay(10U), then the next round of the loop
Thread_l155 ==
  /\ pc = "l155"
  /\ pc' = "l135"
  /\ UNCHANGED <<uart_rx_buf, uart_rx_cnt, usb_tx_cnt, cdc_acm_bridge_tid, cdc_acm_line_coding,
                 uart_init, rx_busy, rx_count, cnt, tmp, uart_in, usb_out, tvars,
                 fell_behind, overrun, restarted, raced, nsets, set_ok, cvars, lvars, wvars>>

\* the drain thread is in the middle of a tick
MidTick == pc \in {"l136", "l137", "l138", "l141", "l141w", "l145", "l149", "l151", "l151w"}

(***************************************************************************)
(* CDC ACM callbacks                                                       *)
(***************************************************************************)
\* variant of USBD_CDC0_ACM_Initialize that starts a reception of UART_BUFFER_SIZE bytes
USBD_CDC0_ACM_Initialize_Arms ==
  /\ ~uart_init
  /\ uart_init' = TRUE
  /\ cdc_acm_bridge_tid' = TRUE
  /\ pc' = "l135"
  /\ rx_busy' = TRUE
  /\ rx_count' = 0
  /\ UNCHANGED <<uart_rx_buf, uart_rx_cnt, usb_tx_cnt, cdc_acm_line_coding,
                 cnt, tmp, uart_in, usb_out, tvars,
                 fell_behind, overrun, restarted, raced, nsets, set_ok, cvars, lvars, wvars>>

\* USBD_CDC0_ACM_Initialize: driver initialised with UART_Callback and powered,
\* drain thread created; no reception is started here
USBD_CDC0_ACM_Initialize ==
  /\ ~uart_init
  /\ uart_init' = TRUE
  /\ cdc_acm_bridge_tid' = TRUE
  /\ pc' = "l135"
  /\ UNCHANGED <<uart_rx_buf, uart_rx_cnt, usb_tx_cnt, cdc_acm_line_coding,
                 rx_busy, rx_count, cnt, tmp, uart_in, usb_out, tvars,
                 fell_behind, overrun, restarted, raced, nsets, set_ok, cvars, lvars, wvars>>

\* USBD_CDC0_ACM_SetLineCoding(line_coding), request accepted: lines 424-427 abort
\* and disable, lines 485-493 store the coding, zero both counters and start a
\* reception of UART_BUFFER_SIZE bytes
SetLineCoding_Accept(lc) ==
  /\ CodingSupported(lc) /\ DriverAccepts(lc)
  /\ cdc_acm_line_coding' = lc
  /\ uart_rx_cnt' = 0
  /\ usb_tx_cnt' = 0
  /\ rx_busy' = TRUE
  /\ rx_count' = 0
  /\ set_ok' = TRUE
  /\ last_accepted' = lc

\* variant of SetLineCoding_Reject that zeroes the counters before it validates
SetLineCoding_Reject_Zeroes(lc) ==
  /\ ~(CodingSupported(lc) /\ DriverAccepts(lc))
  /\ rx_busy' = FALSE
  /\ set_ok' = FALSE
  /\ uart_rx_cnt' = 0
  /\ usb_tx_cnt' = 0
  /\ UNCHANGED <<cdc_acm_line_coding, rx_count, last_accepted>>

\* USBD_CDC0_ACM_SetLineCoding(line_coding), request rejected (lines 440, 454, 471,
\* 481): lines 424-427 have already aborted the reception and disabled the receiver
SetLineCoding_Reject(lc) ==
  /\ ~(CodingSupported(lc) /\ DriverAccepts(lc))
  /\ rx_busy' = FALSE
  /\ set_ok' = FALSE
  /\ UNCHANGED <<cdc_acm_line_coding, uart_rx_cnt, usb_tx_cnt, rx_count, last_accepted>>

USBD_CDC0_ACM_SetLineCoding ==
  /\ uart_init
  /\ nsets < MaxSets
  /\ \E lc \in LineCodings : SetLineCoding_Accept(lc) \/ SetLineCoding_Reject(lc)
  /\ nsets' = nsets + 1
  /\ restarted' = (restarted \/ uart_in > 0)
  /\ raced' = (raced \/ (MidTick /\ set_ok'))
  /\ t_valid' = (t_valid /\ ~set_ok')
  /\ got_line_coding' = NoCoding
  /\ since_uninit' = FALSE
  /\ pend' = IF set_ok' THEN NoPend ELSE pend
  /\ UNCHANGED <<uart_rx_buf, cdc_acm_bridge_tid, uart_init, pc, cnt, tmp, uart_in, usb_out,
                 t_total, t_span, t_over, t_wrote, fell_behind, overrun, nuninit, t_tx0, cvars>>

(***************************************************************************)
(* The UART -> USB specification                                           *)
(***************************************************************************)
Thread ==
  \/ Thread_l135 \/ Thread_l136 \/ Thread_l137 \/ Thread_l138
  \/ Thread_l141 \/ Thread_l141w \/ Thread_l145 \/ Thread_l149
  \/ Thread_l151 \/ Thread_l151w \/ Thread_l155

Next ==
  \/ USBD_CDC0_ACM_Initialize
  \/ USBD_CDC0_ACM_SetLineCoding
  \/ UART_RxByte
  \/ UART_Callback_ReceiveComplete
  \/ Thread

Spec == Init /\ [][Next]_vars

(***************************************************************************)
(* Scheduling of the drain thread                                          *)
(***************************************************************************)
\* lines 133-155: the thread is a for (;;) loop around osDelay(10U), so the RTOS
\* runs its next step whenever it has one (weak fairness); the USB host is taken
\* to read the IN endpoint again and again, so a USBD_CDC_ACM_WriteData that is
\* called over and over accepts at least one byte over and over (strong fairness)
SpecFair ==
  /\ Spec
  /\ WF_vars(Thread)
  /\ SF_vars(Thread_l149 /\ cnt' > 0)

(***************************************************************************)
(* Teardown, bus reset and GetLineCoding                                   *)
(***************************************************************************)
\* variant of USBD_CDC0_ACM_Uninitialize that also clears the stored line coding
USBD_CDC0_ACM_Uninitialize_ClearsCoding ==
  /\ uart_init
  /\ nuninit < MaxUninits
  /\ cdc_acm_bridge_tid' = FALSE
  /\ pc' = "none"
  /\ rx_busy' = FALSE
  /\ uart_init' = FALSE
  /\ nuninit' = nuninit + 1
  /\ since_uninit' = TRUE
  /\ got_line_coding' = NoCoding
  /\ t_valid' = FALSE
  /\ pend' = NoPend
  /\ cdc_acm_line_coding' = ZeroCoding
  /\ UNCHANGED <<uart_rx_buf, uart_rx_cnt, usb_tx_cnt, rx_count, cnt, tmp,
                 uart_in, usb_out, t_total, t_span, t_over, t_wrote,
                 fell_behind, overrun, restarted, raced, nsets, set_ok, last_accepted, t_tx0, cvars>>

\* USBD_CDC0_ACM_Uninitialize: the drain thread is terminated wherever it is,
\* the reception is aborted, the driver is powered off and uninitialised; the
\* stored line coding and the counters are not written
USBD_CDC0_ACM_Uninitialize ==
  /\ uart_init
  /\ nuninit < MaxUninits
  /\ cdc_acm_bridge_tid' = FALSE
  /\ pc' = "none"
  /\ rx_busy' = FALSE
  /\ uart_init' = FALSE
  /\ nuninit' = nuninit + 1
  /\ since_uninit' = TRUE
  /\ got_line_coding' = NoCoding
  /\ t_valid' = FALSE
  /\ pend' = NoPend
  /\ UNCHANGED <<uart_rx_buf, uart_rx_cnt, usb_tx_cnt, cdc_acm_line_coding, rx_count, cnt, tmp,
                 uart_in, usb_out, t_total, t_span, t_over, t_wrote,
                 fell_behind, overrun, restarted, raced, nsets, set_ok, last_accepted, t_tx0, cvars>>

\* USBD_CDC0_ACM_Reset: transmission and reception in progress are aborted
USBD_CDC0_ACM_Reset ==
  /\ uart_init
  /\ rx_busy \/ tx_busy
  /\ rx_busy' = FALSE
  /\ tx_busy' = FALSE
  /\ tx_num' = 0
  /\ UNCHANGED <<uart_rx_buf, uart_rx_cnt, usb_tx_cnt, cdc_acm_bridge_tid, cdc_acm_line_coding,
                 uart_init, rx_count, pc, cnt, tmp, uart_in, usb_out, tvars,
                 fell_behind, overrun, restarted, raced, nsets, set_ok, lvars, wvars,
                 usb_fifo, usb_receive_buffer, dr_pc, dr_i, cmd_buffer, cmd_buffer_cnt,
                 storedLCDString, leds, uart_tx_buf, session, nlines, hrest,
                 cmd_oob, dvars, tx_clobbered, usb_read, dr_read, uart_relayed>>

\* USBD_CDC0_ACM_GetLineCoding(line_coding): *line_coding = cdc_acm_line_coding
USBD_CDC0_ACM_GetLineCoding ==
  /\ got_line_coding' = cdc_acm_line_coding
  /\ UNCHANGED <<bvars, cvars, since_uninit, last_accepted, nuninit, wvars>>

\* the callbacks of the USB stack and the UART reception.  The steps of the drain
\* thread are left to Spec: the thread writes usb_tx_cnt and its locals only, and
\* the callbacks here neither read them nor wait for the thread
NextLife ==
  \/ USBD_CDC0_ACM_Initialize
  \/ USBD_CDC0_ACM_SetLineCoding
  \/ USBD_CDC0_ACM_GetLineCoding
  \/ USBD_CDC0_ACM_Reset
  \/ USBD_CDC0_ACM_Uninitialize
  \/ UART_RxByte
  \/ UART_Callback_ReceiveComplete

SpecLife == Init /\ [][NextLife]_vars

(***************************************************************************)
(* process_AT_command                                                      *)
(***************************************************************************)
\* what the USB host sends in the model
Rep(c, n) == [i \in 1..n |-> c]

LedLines ==
  {S_AT_LED \o <<Digits[n + 1]>> : n \in 0..9} \cup {S_AT_LED \o <<"x">>, S_AT_LED \o <<"-", "3">>}

LcdLines ==
  { S_AT_LCD \o <<"H", "e", "l", "l", "o">>,
    SubSeq(S_AT_LCD, 1, 6) \o <<"x">>,
    S_AT_LCD \o Rep("y", LCD_STRING_SIZE + 2) }

QueryLines ==
  { S_AT_BUTTON, S_AT_POT, <<"A", "T", "+", "F", "O", "O">> }

LongLines ==
  { Rep("x", CMD_BUFFER_SIZE + 1), Rep("x", CMD_BUFFER_SIZE - 1) }

MixedLines ==
  { S_AT_LED \o <<"4">>, S_AT_LCD \o <<"H", "i">>, S_AT_BUTTON, <<"A", "T", "+", "F", "O", "O">> }

\* a session is the set of lines the host chooses from
Sessions == {{l} : l \in LedLines} \cup {LcdLines, QueryLines, LongLines, MixedLines}

\* values the analog conversion of ReadPot gives in the model
PotValues == {0, 4095}

\* content of the three stack bytes behind binaryString[5]: "1" or another value
StackBytes == [BINARY_STRING_SIZE..7 -> {"1", "?"}]

\* ASCII codes of the characters a line of LongLines stores
CharCode(c) == IF c = "x" THEN 120 ELSE 0

\* ptrUART->Send(uart_tx_buf, n) on a driver whose transmitter is busy or idle:
\* a busy driver refuses (ARM_DRIVER_ERROR_BUSY) and nothing is transmitted
SendAccepted(busy) == ~busy

\* the level the for loop of lines 209-273 reads for i: binaryString[i] inside the
\* array, the stack byte behind it outside
ReadBinaryString(bs, garbage, i) == IF i < BINARY_STRING_SIZE THEN bs[i] ELSE garbage[i]

\* lines 204-274: the outputs after the AT+LED loop
LedOutputs(led_value, L, garbage) ==
  IF led_value >= 1 /\ led_value <= 8
  THEN LET bs == intToBinaryString(led_value, [i \in 0..(BINARY_STRING_SIZE - 1) |-> "?"],
                                   BINARY_STRING_SIZE - 1)
       IN [k \in 1..8 |-> ReadBinaryString(bs, garbage, k - 1) = "1"]
  ELSE L

\* variant of ButtonMessage that tests the pair SW1, SW2 before the triples
ButtonMessage_PairFirst(sw) ==
  IF sw[1] /\ sw[2] /\ sw[3] /\ sw[4] THEN M_ALL
  ELSE IF sw[1] /\ sw[2] THEN M_12
  ELSE IF sw[1] /\ sw[2] /\ sw[3] THEN M_123
  ELSE IF sw[1] /\ sw[2] /\ sw[4] THEN M_124
  ELSE IF sw[1] /\ sw[3] /\ sw[4] THEN M_134
  ELSE IF sw[2] /\ sw[3] /\ sw[4] THEN M_234
  ELSE IF sw[1] /\ sw[3] THEN M_13
  ELSE IF sw[1] /\ sw[4] THEN M_14
  ELSE IF sw[2] /\ sw[3] THEN M_23
  ELSE IF sw[2] /\ sw[4] THEN M_24
  ELSE IF sw[3] /\ sw[4] THEN M_34
  ELSE IF sw[1] THEN M_1
  ELSE IF sw[2] THEN M_2
  ELSE IF sw[3] THEN M_3
  ELSE IF sw[4] THEN M_4
  ELSE M_NONE

\* lines 289-339: the message chosen for the levels sw of SW1..SW4
ButtonMessage(sw) ==
  IF sw[1] /\ sw[2] /\ sw[3] /\ sw[4] THEN M_ALL
  ELSE IF sw[1] /\ sw[2] /\ sw[3] THEN M_123
  ELSE IF sw[1] /\ sw[2] /\ sw[4] THEN M_124
  ELSE IF sw[1] /\ sw[3] /\ sw[4] THEN M_134
  ELSE IF sw[2] /\ sw[3] /\ sw[4] THEN M_234
  ELSE IF sw[1] /\ sw[2] THEN M_12
  ELSE IF sw[1] /\ sw[3] THEN M_13
  ELSE IF sw[1] /\ sw[4] THEN M_14
  ELSE IF sw[2] /\ sw[3] THEN M_23
  ELSE IF sw[2] /\ sw[4] THEN M_24
  ELSE IF sw[3] /\ sw[4] THEN M_34
  ELSE IF sw[1] THEN M_1
  ELSE IF sw[2] THEN M_2
  ELSE IF sw[3] THEN M_3
  ELSE IF sw[4] THEN M_4
  ELSE M_NONE

\* which branch of process_AT_command a line takes
Branch(line) ==
  IF StrNCmpEq(line, S_AT_LED, 6) THEN "LED"
  ELSE IF StrNCmpEq(line, S_AT_LCD, 6) THEN "LCD"
  ELSE IF StrNCmpEq(line, S_AT_BUTTON, 9) THEN "BUTTON"
  ELSE IF StrNCmpEq(line, S_AT_POT, 6) THEN "POT"
  ELSE "NONE"

\* process_AT_command(cmd_buffer) on the buffer content buf, with the outputs L,
\* the stored string stored, the transmit buffer txbuf and the transmitter state
\* (busy, num); garbage, sw and pot are what the call reads from the stack behind
\* binaryString, from SW1..SW4 and from ReadPot.  The result is the state it leaves.
process_AT_command(buf, L, stored, txbuf, busy, num, garbage, sw, pot) ==
  LET line == CStrFrom(buf, 0)
      arg == CStrFrom(buf, 6)
      br == Branch(line)
      led_value == Atoi(arg)
      msg == IF br = "LED" THEN Snprintf(F_LED \o Dec(led_value) \o CRLF)
             ELSE IF br = "LCD" THEN Snprintf(F_LCD \o arg \o CRLF)
             ELSE IF br = "BUTTON" THEN Snprintf(ButtonMessage(sw))
             ELSE IF br = "POT" THEN Snprintf(F_POT \o Dec(pot) \o CRLF)
             ELSE txbuf
      sends == br \in {"BUTTON", "POT"} /\ SendAccepted(busy)
  IN [ leds |-> IF br = "LED" THEN LedOutputs(led_value, L, garbage) ELSE L,
       stored |-> IF br = "LCD" THEN storeLCDString(arg) ELSE stored,
       txbuf |-> msg,
       busy |-> (busy \/ sends),
       num |-> IF sends THEN Len(msg) ELSE num,
       sent |-> IF sends THEN <<msg>> ELSE <<>>,
       reads |-> IF br = "LED" /\ led_value >= 1 /\ led_value <= 8 THEN 0..7 ELSE {},
       clobber |-> (br # "NONE" /\ busy),
       line |-> line ]

(***************************************************************************)
(* USBD_CDC0_ACM_DataReceived                                              *)
(***************************************************************************)
\* outcomes of a store through cmd_buffer[cmd_buffer_cnt++] that lands behind the
\* array: on memory this model does not follow, or, for the first byte behind the
\* array, on the low byte of cmd_buffer_cnt
OobOutcomes == {"elsewhere", "cursor"}

\* the stores cmd_buffer[cmd_buffer_cnt++] = run[1], run[2], ... on the state
\* st = [buf, cnt, oob], every store behind the array landing on memory the model
\* does not follow
StoreElsewhere(st, run) ==
  [ buf |-> [i \in 0..(CMD_BUFFER_SIZE - 1) |->
               IF i >= st.cnt /\ i < st.cnt + Len(run) THEN run[i - st.cnt + 1] ELSE st.buf[i]],
    cnt |-> st.cnt + Len(run),
    oob |-> (st.oob \/ (Len(run) > 0 /\ st.cnt + Len(run) > CMD_BUFFER_SIZE)) ]

\* the same stores when the store to cmd_buffer[CMD_BUFFER_SIZE] lands on the low
\* byte of cmd_buffer_cnt: the cursor continues from the code of the byte stored
StoreRun(st, run, outcome) ==
  LET fit == CMD_BUFFER_SIZE - st.cnt
  IN IF outcome = "cursor" /\ fit >= 0 /\ Len(run) > fit
     THEN LET a == StoreElsewhere(st, Take(run, fit))
              b == [buf |-> a.buf, cnt |-> CharCode(run[fit + 1]), oob |-> TRUE]
          IN StoreElsewhere(b, Drop(run, fit + 1))
     ELSE StoreElsewhere(st, run)

\* number of bytes of s before its first carriage return
RunLen(s) ==
  LET crs == {j \in 1..Len(s) : s[j] = "\r"} \cup {Len(s) + 1}
  IN (CHOOSE j \in crs : \A k \in crs : j <= k) - 1

\* variant of USBD_CDC0_ACM_DataReceived_Read that starts every call with the
\* cursor at 0, as if cmd_buffer_cnt were a local of USBD_CDC0_ACM_DataReceived
USBD_CDC0_ACM_DataReceived_Read_Local ==
  /\ uart_init
  /\ dr_pc = "idle"
  /\ usb_fifo # <<>>
  /\ usb_receive_buffer' = Take(usb_fifo, USB_RECEIVE_BUFFER_SIZE)
  /\ usb_fifo' = Drop(usb_fifo, USB_RECEIVE_BUFFER_SIZE)
  /\ usb_read' = usb_read \o Take(usb_fifo, USB_RECEIVE_BUFFER_SIZE)
  /\ dr_read' = dr_read \o Take(usb_fifo, USB_RECEIVE_BUFFER_SIZE)
  /\ dr_i' = 0
  /\ dr_pc' = "loop"
  /\ cmd_buffer_cnt' = 0
  /\ UNCHANGED <<cmd_buffer, storedLCDString, leds, uart_tx_buf, tx_busy, tx_num,
                 session, nlines, hrest, cmd_oob, dvars, tx_clobbered, uart_relayed, bvars, lvars, wvars>>

\* line 362: cnt = USBD_CDC_ACM_ReadData(0U, usb_receive_buffer, USB_RECEIVE_BUFFER_SIZE)
USBD_CDC0_ACM_DataReceived_Read ==
  /\ uart_init
  /\ dr_pc = "idle"
  /\ usb_fifo # <<>>
  /\ usb_receive_buffer' = Take(usb_fifo, USB_RECEIVE_BUFFER_SIZE)
  /\ usb_fifo' = Drop(usb_fifo, USB_RECEIVE_BUFFER_SIZE)
  /\ usb_read' = usb_read \o Take(usb_fifo, USB_RECEIVE_BUFFER_SIZE)
  /\ dr_read' = dr_read \o Take(usb_fifo, USB_RECEIVE_BUFFER_SIZE)
  /\ dr_i' = 0
  /\ dr_pc' = "loop"
  /\ UNCHANGED <<cmd_buffer, cmd_buffer_cnt, storedLCDString, leds, uart_tx_buf, tx_busy, tx_num,
                 session, nlines, hrest, cmd_oob, dvars, tx_clobbered, uart_relayed, bvars, lvars, wvars>>

\* lines 365-378: the iterations of the for loop up to and including the next
\* carriage return (they touch nothing the UART interrupt touches before the call
\* of process_AT_command), or up to the end of the bytes read
\* (st2 and r are bound through one-element sets: each is computed once)
USBD_CDC0_ACM_DataReceived_Loop ==
  /\ dr_pc = "loop"
  /\ LET rest == Drop(usb_receive_buffer, dr_i)
         n == RunLen(rest)
         cr == n < Len(rest)
         i2 == IF cr THEN dr_i + n + 1 ELSE dr_i + n
         st0 == [buf |-> cmd_buffer, cnt |-> cmd_buffer_cnt, oob |-> cmd_oob]
         stores == IF cr THEN n + 1 ELSE n
         behind == cmd_buffer_cnt + stores > CMD_BUFFER_SIZE
     IN \E outcome \in (IF behind THEN OobOutcomes ELSE {"elsewhere"}) :
          \E st2 \in {StoreRun(st0, Take(rest, n) \o (IF cr THEN <<NUL>> ELSE <<>>), outcome)} :
          LET br == IF cr THEN Branch(CStrFrom(st2.buf, 0)) ELSE "NONE"
              inrange == br = "LED" /\ Atoi(CStrFrom(st2.buf, 6)) \in 1..8
          IN /\ cmd_buffer' = st2.buf
             /\ cmd_buffer_cnt' = IF cr THEN 0 ELSE st2.cnt
             /\ cmd_oob' = st2.oob
             /\ dr_i' = i2
             /\ dr_pc' = IF i2 >= Len(usb_receive_buffer) THEN "idle" ELSE "loop"
             /\ IF cr
                THEN \E garbage \in (IF inrange THEN StackBytes
                                     ELSE {[i \in BINARY_STRING_SIZE..7 |-> "?"]}),
                        sw \in (IF br = "BUTTON" THEN [1..4 -> BOOLEAN]
                                ELSE {[k \in 1..4 |-> FALSE]}),
                        pot \in (IF br = "POT" THEN PotValues ELSE {0}) :
                       \E r \in {process_AT_command(st2.buf, leds, storedLCDString, uart_tx_buf,
                                                   tx_busy, tx_num, garbage, sw, pot)} :
                          /\ leds' = r.leds
                          /\ storedLCDString' = r.stored
                          /\ uart_tx_buf' = r.txbuf
                          /\ tx_busy' = r.busy
                          /\ tx_num' = r.num
                          /\ tx_clobbered' = (tx_clobbered \/ r.clobber)
                          /\ ndisp' = ndisp + 1
                          /\ last_line' = r.line
                          /\ prev_line' = last_line
                          /\ d_leds0' = leds
                          /\ d_stored0' = storedLCDString
                          /\ d_sent' = r.sent
                          /\ d_reads' = r.reads
                          /\ d_sw' = sw
                          /\ d_pot' = pot
                          /\ dispatched' = Append(dispatched, r.line)
                ELSE UNCHANGED <<leds, storedLCDString, uart_tx_buf, tx_busy, tx_num,
                                 tx_clobbered, dvars>>
  /\ UNCHANGED <<usb_fifo, usb_receive_buffer, session, nlines, hrest, usb_read, dr_read,
                 uart_relayed, bvars, lvars, wvars>>

(***************************************************************************)
(* UART_Callback, send complete                                            *)
(***************************************************************************)
\* the transmission in progress ends and the driver calls
\* UART_Callback(ARM_USART_EVENT_SEND_COMPLETE), lines 107-113
UART_Callback_SendComplete ==
  /\ tx_busy
  /\ LET data == Take(usb_fifo, UART_TX_BUFFER_SIZE)
     IN IF Len(data) > 0
        THEN /\ usb_fifo' = Drop(usb_fifo, UART_TX_BUFFER_SIZE)
             /\ uart_tx_buf' = data
             /\ tx_busy' = TRUE
             /\ tx_num' = Len(data)
             /\ usb_read' = usb_read \o data
             /\ uart_relayed' = uart_relayed \o data
        ELSE /\ tx_busy' = FALSE
             /\ tx_num' = 0
             /\ UNCHANGED <<usb_fifo, uart_tx_buf, usb_read, uart_relayed>>
  /\ UNCHANGED <<usb_receive_buffer, dr_pc, dr_i, cmd_buffer, cmd_buffer_cnt, storedLCDString, leds,
                 session, nlines, hrest, cmd_oob, dvars, tx_clobbered, dr_read, bvars, lvars, wvars>>

(***************************************************************************)
(* The USB host                                                            *)
(***************************************************************************)
\* the host begins the next command line of its session: it sends the line and
\* its carriage return in one packet, or the first HostSplit bytes of it
Host_NewLine ==
  /\ uart_init
  /\ hrest = <<>>
  /\ nlines < MaxLines
  /\ \E l \in session :
       \E k \in {Len(l) + 1} \cup (IF Len(l) + 1 > HostSplit THEN {HostSplit} ELSE {}) :
         /\ usb_fifo' = usb_fifo \o Take(l \o <<"\r">>, k)
         /\ hrest' = Drop(l \o <<"\r">>, k)
  /\ nlines' = nlines + 1
  /\ UNCHANGED <<usb_receive_buffer, dr_pc, dr_i, cmd_buffer, cmd_buffer_cnt,
                 storedLCDString, leds, uart_tx_buf, tx_busy, tx_num, session,
                 cmd_oob, dvars, tx_clobbered, usb_read, dr_read, uart_relayed, bvars, lvars, wvars>>

\* the host sends the rest of the current line in a second packet
Host_Send ==
  /\ hrest # <<>>
  /\ usb_fifo' = usb_fifo \o hrest
  /\ hrest' = <<>>
  /\ UNCHANGED <<usb_receive_buffer, dr_pc, dr_i, cmd_buffer, cmd_buffer_cnt,
                 storedLCDString, leds, uart_tx_buf, tx_busy, tx_num, session, nlines,
                 cmd_oob, dvars, tx_clobbered, usb_read, dr_read, uart_relayed, bvars, lvars, wvars>>

\* USBD_CDC0_ACM_Initialize, seen from the USB -> UART direction
Cmd_Initialize ==
  /\ ~uart_init
  /\ uart_init' = TRUE
  /\ cdc_acm_bridge_tid' = TRUE
  /\ UNCHANGED <<uart_rx_buf, uart_rx_cnt, usb_tx_cnt, cdc_acm_line_coding,
                 rx_busy, rx_count, pc, cnt, tmp, uart_in, usb_out, tvars,
                 fell_behind, overrun, restarted, raced, nsets, set_ok, cvars, lvars, wvars>>

(***************************************************************************)
(* The USB -> UART specification                                           *)
(***************************************************************************)
InitCmd == InitBridge /\ \E s \in Sessions : InitCmdSide(s)

NextCmd ==
  \/ Cmd_Initialize
  \/ Host_NewLine
  \/ Host_Send
  \/ USBD_CDC0_ACM_DataReceived_Read
  \/ USBD_CDC0_ACM_DataReceived_Loop
  \/ UART_Callback_SendComplete

SpecCmd == InitCmd /\ [][NextCmd]_vars

(***************************************************************************)
(* Properties of the UART -> USB direction, stated for Spec                 *)
(***************************************************************************)
\* the drain thread is between two ticks
BetweenTicks == pc \in {"none", "l135", "l155"}

\* the drain thread has finished a tick, and no line coding was accepted since
\* the tick began
TickDone == pc = "l155" /\ t_valid

InOrder == usb_out = [i \in 1..Len(usb_out) |-> i]

\* C3, as stated: if every drain tick so far saw an unread span below the
\* capacity and the USB write accepted all it was offered, the bytes handed to
\* the USB write are the received bytes in arrival order.
C3_ByteOrder_Stated ==
  (~fell_behind /\ ~restarted) => InOrder

\* C3 with the consumer keeping up in fact: no received byte overwrote a byte
\* not yet forwarded
C3_ByteOrder ==
  (~fell_behind /\ ~restarted /\ ~overrun) => InOrder

\* C3 witness: more than a buffer of bytes forwarded in order, across the wrap
C3_Witness ==
  /\ ~fell_behind /\ ~restarted /\ ~overrun
  /\ Len(usb_out) > UART_BUFFER_SIZE
  /\ InOrder

(***************************************************************************)
(* Properties of the USB -> UART direction, stated for SpecCmd              *)
(***************************************************************************)
\* line begins with the characters of lit
BeginsWith(line, lit) == Len(line) >= Len(lit) /\ SubSeq(line, 1, Len(lit)) = lit

\* the host has sent all its lines, every byte has been read and processed and
\* the transmitter is idle: nothing further happens
Quiescent ==
  /\ nlines = MaxLines /\ hrest = <<>> /\ usb_fifo = <<>>
  /\ dr_pc = "idle" /\ ~tx_busy

\* C4: every byte delivered by the USB host is transmitted on the UART, in the
\* order received: once nothing further happens, the bytes handed to
\* ptrUART->Send are the bytes read from the USB stack.
C4_UsbToUartRelay ==
  Quiescent => uart_relayed = usb_read

\* C5: the cursor cmd_buffer_cnt stays within 0..CMD_BUFFER_SIZE and no store
\* lands outside cmd_buffer, whatever bytes the USB host sends.
C5_CursorInBounds ==
  /\ cmd_buffer_cnt >= 0 /\ cmd_buffer_cnt <= CMD_BUFFER_SIZE
  /\ ~cmd_oob

\* C6: after the dispatch of "AT+LCD=<text>" the stored display string is
\* <text>, cut to the LCD_STRING_SIZE - 1 characters the string can hold.
C6_LcdStoresArgument ==
  (ndisp > 0 /\ BeginsWith(last_line, S_AT_LCD)) =>
     storedLCDString = Take(Drop(last_line, Len(S_AT_LCD)), LCD_STRING_SIZE - 1)

\* the transmission of exactly one status line was started by the latest dispatch
OneReply == Len(d_sent) = 1

\* C7: the dispatch of a line that begins with AT+LED, AT+LCD=, AT+BUTTON or
\* AT+POT starts the transmission of exactly one status line; for AT+LED that
\* line is "LED value set to: <n>\r\n" with the parsed value.
C7_ReplySent ==
  ndisp > 0 =>
     /\ BeginsWith(last_line, S_AT_LED) =>
          d_sent = << F_LED \o Dec(Atoi(Drop(last_line, Len(S_AT_LED)))) \o CRLF >>
     /\ BeginsWith(last_line, S_AT_LCD) => OneReply
     /\ BeginsWith(last_line, S_AT_BUTTON) => OneReply
     /\ BeginsWith(last_line, S_AT_POT) => OneReply

\* the line begins with one of the four command prefixes
Recognized(line) ==
  \/ BeginsWith(line, S_AT_LED)
  \/ BeginsWith(line, S_AT_LCD)
  \/ BeginsWith(line, S_AT_BUTTON)
  \/ BeginsWith(line, S_AT_POT)

\* C8: the dispatch of a line that begins with none of the four prefixes changes
\* no output, leaves the stored display string as it was and sends no reply.
C8_UnrecognizedIgnored ==
  (ndisp > 0 /\ ~Recognized(last_line)) =>
     (leds = d_leds0 /\ storedLCDString = d_stored0 /\ d_sent = <<>>)

\* bit k (k = 1 the most significant) of the 4-bit binary encoding of n
Bit4(n, k) == (n \div (2 ^ (4 - k))) % 2

\* C9: for n in 1..8, after the dispatch of "AT+LED<n>" output k (k = 1..4) is
\* set if and only if bit k, most significant first, of the 4-bit encoding of n is 1.
C9_LedBitMapping ==
  \A n \in 1..8 :
     (ndisp > 0 /\ last_line = S_AT_LED \o <<Digits[n + 1]>>) =>
        \A k \in 1..4 : leds[k] = (Bit4(n, k) = 1)

\* C9 witness: "AT+LED5" was dispatched; outputs 2 and 4 are set, 1 and 3 cleared
C9_Witness ==
  /\ ndisp > 0 /\ last_line = S_AT_LED \o <<"5">>
  /\ ~leds[1] /\ leds[2] /\ ~leds[3] /\ leds[4]

\* C10: the dispatch of "AT+LED4" twice in a row leaves all 8 outputs as the
\* first dispatch left them.
C10_LedIdempotent ==
  (ndisp > 1 /\ last_line = S_AT_LED \o <<"4">> /\ prev_line = S_AT_LED \o <<"4">>) =>
     leds = d_leds0

\* msg contains the characters of sub in a row
HasSub(msg, sub) ==
  \E i \in 1..(Len(msg) - Len(sub) + 1) : SubSeq(msg, i, i + Len(sub) - 1) = sub

\* msg names button k
NamesButton(msg, k) == HasSub(msg, <<"B", "u", "t", "t", "o", "n", " ", Digits[k + 1]>>)

T_ALL == <<"A", "l", "l", " ", "b", "u", "t", "t", "o", "n", "s", " ", "a", "r", "e", " ",
           "p", "r", "e", "s", "s", "e", "d">>

T_NONE == <<"N", "o", " ", "b", "u", "t", "t", "o", "n", " ", "i", "s", " ",
            "p", "r", "e", "s", "s", "e", "d">>

\* msg is the reply for the asserted inputs sw
NamesAsserted(msg, sw) ==
  IF \A k \in 1..4 : sw[k] THEN BeginsWith(msg, T_ALL)
  ELSE IF \A k \in 1..4 : ~sw[k] THEN BeginsWith(msg, T_NONE)
  ELSE \A k \in 1..4 : NamesButton(msg, k) <=> sw[k]

\* C11: for each of the 16 combinations of SW1..SW4 the line that the dispatch of
\* AT+BUTTON builds in uart_tx_buf names exactly the asserted buttons, "All
\* buttons are pressed" for all four and "No button is pressed" for none.
C11_ButtonSubset ==
  [][(ndisp' = ndisp + 1 /\ BeginsWith(last_line', S_AT_BUTTON))
        => NamesAsserted(uart_tx_buf', d_sw')]_vars

\* C11 witness: AT+BUTTON was dispatched with SW1 and SW3 asserted and the line
\* built names buttons 1 and 3
C11_Witness ==
  /\ ndisp > 0 /\ last_line = S_AT_BUTTON
  /\ d_sw = <<TRUE, FALSE, TRUE, FALSE>>
  /\ NamesButton(uart_tx_buf, 1) /\ NamesButton(uart_tx_buf, 3)
  /\ ~NamesButton(uart_tx_buf, 2) /\ ~NamesButton(uart_tx_buf, 4)

(***************************************************************************)
(* Line coding and lifecycle                                               *)
(***************************************************************************)
\* this step is a call of USBD_CDC0_ACM_SetLineCoding that returns false
RejectedCall == nsets' = nsets + 1 /\ ~set_ok'

\* C12 as stated: a call of USBD_CDC0_ACM_SetLineCoding that returns false leaves
\* the stored line coding, both counters and the armed state of the UART
\* reception as they were before the call.
C12_RejectKeepsBridge_Stated ==
  [][RejectedCall =>
        /\ cdc_acm_line_coding' = cdc_acm_line_coding
        /\ uart_rx_cnt' = uart_rx_cnt /\ usb_tx_cnt' = usb_tx_cnt
        /\ rx_busy' = rx_busy]_vars

\* C12 as amended: a call of USBD_CDC0_ACM_SetLineCoding that returns false leaves
\* the stored line coding and both counters as they were, and leaves the UART
\* reception aborted, whether or not it was armed before the call.
C12_RejectKeepsBridge ==
  [][RejectedCall =>
        /\ cdc_acm_line_coding' = cdc_acm_line_coding
        /\ uart_rx_cnt' = uart_rx_cnt /\ usb_tx_cnt' = usb_tx_cnt
        /\ ~rx_busy']_vars

\* C12 witness: a request was accepted, a full buffer was received and a part of
\* it forwarded, then a request was rejected: coding and counters are kept, the
\* reception is no longer armed
C12_Witness ==
  /\ nsets = 2 /\ ~set_ok /\ ~rx_busy
  /\ cdc_acm_line_coding # ZeroCoding
  /\ uart_rx_cnt > 0 /\ usb_tx_cnt > 0

\* C13 as stated: a USBD_CDC0_ACM_GetLineCoding issued after
\* USBD_CDC0_ACM_Uninitialize and before any new SetLineCoding returns the
\* all-zero record.
C13_UninitClearsCoding_Stated ==
  (since_uninit /\ got_line_coding # NoCoding) => got_line_coding = ZeroCoding

\* C13 as amended: USBD_CDC0_ACM_Uninitialize leaves the stored record as it
\* was, so a GetLineCoding issued after it and before any new SetLineCoding
\* returns the coding of the latest accepted request (the all-zero record only
\* when no request was ever accepted).
C13_UninitKeepsCoding ==
  (since_uninit /\ got_line_coding # NoCoding) => got_line_coding = last_accepted

\* C13 witness: a coding was accepted, the bridge was uninitialised and a
\* GetLineCoding after that returned the accepted coding
C13_Witness ==
  /\ since_uninit /\ ~uart_init
  /\ last_accepted # ZeroCoding
  /\ got_line_coding = last_accepted

\* C14 as stated: once USBD_CDC0_ACM_Initialize has returned, and without any
\* SetLineCoding, the driver is wired to UART_Callback, the drain task is started
\* and a reception is armed.
C14_InitializeArms_Stated ==
  (uart_init /\ nsets = 0) => (cdc_acm_bridge_tid /\ pc # "none" /\ rx_busy)

\* C14 as amended: once USBD_CDC0_ACM_Initialize has returned the driver is wired
\* to UART_Callback and the drain task is started, but no reception is armed:
\* until a SetLineCoding has been accepted no reception is armed and no UART
\* byte is received into the ring buffer.
C14_InitializeDoesNotArm ==
  /\ uart_init => (cdc_acm_bridge_tid /\ pc # "none")
  /\ last_accepted = ZeroCoding => (~rx_busy /\ uart_in = 0)

\* C14 witness: after USBD_CDC0_ACM_Initialize and a rejected SetLineCoding the
\* drain task has run a tick and found no reception armed
C14_Witness ==
  /\ uart_init /\ cdc_acm_bridge_tid /\ pc = "l155"
  /\ nsets > 0 /\ last_accepted = ZeroCoding
  /\ ~rx_busy /\ uart_in = 0

\* this step is the receive-complete path of UART_Callback
ReceiveCompleteStep == uart_in' = uart_in + 1 /\ rx_count' = 0

\* this step is a step of the drain thread
DrainStep == pc # "none" /\ pc' # pc

\* this step is a call of USBD_CDC0_ACM_SetLineCoding that returns true
AcceptedCall == nsets' = nsets + 1 /\ set_ok'

\* C15 as stated: uart_rx_cnt is written only by the receive-complete path and
\* usb_tx_cnt only by the drain thread.
C15_SingleWriter_Stated ==
  [][/\ uart_rx_cnt' # uart_rx_cnt => ReceiveCompleteStep
     /\ usb_tx_cnt' # usb_tx_cnt => DrainStep]_vars

\* C15 as amended: uart_rx_cnt is written only by the receive-complete path and
\* by an accepted USBD_CDC0_ACM_SetLineCoding, usb_tx_cnt only by the drain
\* thread and by an accepted USBD_CDC0_ACM_SetLineCoding (which zeroes both).
C15_CounterWriters ==
  [][/\ uart_rx_cnt' # uart_rx_cnt => (ReceiveCompleteStep \/ AcceptedCall)
     /\ usb_tx_cnt' # usb_tx_cnt => (DrainStep \/ AcceptedCall)]_vars

\* C15 witness: a full buffer was received and bytes were forwarded, then a
\* second request was accepted and both counters are zero again
C15_Witness ==
  /\ nsets = 2 /\ set_ok
  /\ uart_in >= UART_BUFFER_SIZE /\ Len(usb_out) > 0
  /\ uart_rx_cnt = 0 /\ usb_tx_cnt = 0 /\ rx_count = 0

WroteTick == TickDone /\ t_wrote

\* the accounting of C17: when the USB write accepts k > 0 bytes usb_tx_cnt
\* advances by exactly k, when it accepts none or reports an error usb_tx_cnt is
\* left as it was, and no step of the drain thread writes uart_rx_cnt
AcceptAccounting ==
  /\ [](WroteTick => usb_tx_cnt = t_tx0 + (IF cnt > 0 THEN cnt ELSE 0))
  /\ [][DrainStep => uart_rx_cnt' = uart_rx_cnt]_vars

C18_OverflowThreshold_Stated ==
  TickDone =>
     /\ (t_span > 0 /\ ~t_wrote) => t_span > UART_BUFFER_SIZE
     /\ t_span = UART_BUFFER_SIZE => t_wrote

\* C18, amended: the test of line 139 is cnt >= UART_BUFFER_SIZE. A tick discards
\* the backlog exactly when the unread span is UART_BUFFER_SIZE or more; a span
\* of exactly UART_BUFFER_SIZE is skipped without a USB write, and a positive
\* span below UART_BUFFER_SIZE is handed to the USB write.
C18_OverflowThreshold ==
  TickDone =>
     /\ t_span >= UART_BUFFER_SIZE => (~t_wrote /\ usb_tx_cnt = t_total)
     /\ (t_span > 0 /\ t_span < UART_BUFFER_SIZE) => t_wrote
     /\ t_span <= 0 => ~t_wrote

\* C18 witness: a finished tick that found exactly a buffer of unread bytes and
\* skipped them
C18_Witness ==
  TickDone /\ t_span = UART_BUFFER_SIZE /\ ~t_wrote /\ usb_tx_cnt = t_total

\* the unread span as line 136-138 computes it
UnreadSpan == uart_rx_cnt + rx_count - usb_tx_cnt

\* C19, as stated: if from some point on no further UART byte arrives and the
\* reception stays armed, then, the drain thread being scheduled fairly and the
\* USB write accepting bytes again and again, the unread span
\* uart_rx_cnt + GetRxCount() - usb_tx_cnt eventually becomes 0.
C19_DrainConvergence_Stated ==
  (<>[]rx_busy /\ <>[][uart_in' = uart_in]_vars) => []<>(UnreadSpan = 0)

(***************************************************************************)
(* Command lines and USB packets, stated for SpecCmd                       *)
(***************************************************************************)
\* the bytes the for loop of USBD_CDC0_ACM_DataReceived has gone through so far
Consumed == Take(dr_read, Len(dr_read) - (Len(usb_receive_buffer) - dr_i))

\* positions of the carriage returns of s, and the n-th of them
CRs(s) == {j \in 1..Len(s) : s[j] = "\r"}

NthCR(s, n) == CHOOSE j \in CRs(s) : Cardinality({k \in CRs(s) : k <= j}) = n

\* the lines of s: for each carriage return, the bytes since the one before
LinesOf(s) ==
  [n \in 1..Cardinality(CRs(s)) |->
     SubSeq(s, (IF n = 1 THEN 0 ELSE NthCR(s, n - 1)) + 1, NthCR(s, n) - 1)]

\* the bytes of s behind its last carriage return
TailOf(s) ==
  LET crs == CRs(s) \cup {0}
  IN Drop(s, CHOOSE j \in crs : \A k \in crs : k <= j)

\* every line of s, the unfinished one included, is shorter than cmd_buffer
AllShort(s) ==
  /\ \A n \in 1..Cardinality(CRs(s)) : Len(LinesOf(s)[n]) < CMD_BUFFER_SIZE
  /\ Len(TailOf(s)) < CMD_BUFFER_SIZE

\* C20: when every line is shorter than cmd_buffer, the lines given to
\* process_AT_command depend only on the bytes USBD_CDC0_ACM_DataReceived has gone
\* through, not on how they were split into calls: one dispatch per carriage
\* return, each with exactly the bytes since the carriage return before, and the
\* cursor counts the bytes behind the last carriage return (0 right after a
\* dispatch), which are the content of cmd_buffer up to the cursor.
C20_PacketIndependence ==
  AllShort(Consumed) =>
     /\ dispatched = LinesOf(Consumed)
     /\ ndisp = Cardinality(CRs(Consumed))
     /\ cmd_buffer_cnt = Len(TailOf(Consumed))
     /\ \A k \in 1..cmd_buffer_cnt : cmd_buffer[k - 1] = TailOf(Consumed)[k]

\* C20 witness: a line that arrived in two calls of USBD_CDC0_ACM_DataReceived has
\* just been dispatched whole
C20_Witness ==
  /\ ndisp > 0 /\ dr_i > 0 /\ cmd_buffer_cnt = 0
  /\ usb_receive_buffer[dr_i] = "\r"
  /\ Len(last_line) >= dr_i
  /\ AllShort(Consumed)
  /\ dispatched = LinesOf(Consumed)
  /\ last_line = dispatched[Len(dispatched)]

(***************************************************************************)
(* The counter reset of SetLineCoding against a drain tick, stated for Spec *)
(***************************************************************************)
\* C21: whenever the latest line-coding request was accepted (lines 487-488
\* zeroed uart_rx_cnt and usb_tx_cnt and line 493 armed the reception) and the
\* drain thread is between two ticks, usb_tx_cnt <= uart_rx_cnt + GetRxCount():
\* no tick that began before the reset leaves a stale usb_tx_cnt behind.
C21_ResetRaceFree ==
  (BetweenTicks /\ nsets > 0 /\ set_ok) => usb_tx_cnt <= uart_rx_cnt + rx_count

(***************************************************************************)
(* uart_tx_buf and the transmission in progress, stated for SpecCmd         *)
(***************************************************************************)
\* C22: uart_tx_buf is never written while a transmission that was started from
\* it is still in progress, and no reply is handed to ptrUART->Send while the
\* transmitter is busy: the dispatch of AT+BUTTON or AT+POT always starts the
\* transmission of its reply.
C22_TxBufferNotOverwritten ==
  /\ ~tx_clobbered
  /\ (ndisp > 0 /\ (BeginsWith(last_line, S_AT_BUTTON) \/ BeginsWith(last_line, S_AT_POT)))
        => Len(d_sent) = 1

(***************************************************************************)
(* The reads of binaryString by the AT+LED handler, stated for SpecCmd      *)
(***************************************************************************)
\* C23: for n in 1..8 the dispatch of "AT+LED<n>" reads binaryString only at the
\* indices 0..4 of the array, and the outputs it leaves depend on n alone: two
\* dispatches of the same line in a row leave the same outputs.
C23_LedReadsInsideArray ==
  \A n \in 1..8 :
     (ndisp > 0 /\ last_line = S_AT_LED \o <<Digits[n + 1]>>) =>
        /\ d_reads \subseteq 0..(BINARY_STRING_SIZE - 1)
        /\ (ndisp > 1 /\ prev_line = last_line) => leds = d_leds0

====
